---- MODULE Spec2Model ----
(***************************************************************************)
(* TProtect cipher core: the substitution cipher, the transposition        *)
(* (shift) cipher with its brute force, and the letter frequency analyzer. *)
(* Characters are their ASCII codes, strings are sequences of codes.       *)
(***************************************************************************)
EXTENDS Integers, Sequences, FiniteSets, TLC

VARIABLES
    encryption_map_,   \* substitution_cipher::encryption_map_ (std::map<char, char>)
    decryption_map_,   \* substitution_cipher::decryption_map_ (std::map<char, char>)
    sub_key,           \* history: the mapping last passed to the constructor / set_key
    sub_fresh,         \* history: TRUE while no set_key followed the construction
    key_,              \* transposition_cipher::key_
    t_key,             \* history: the int last passed to the constructor / set_key
    fault,             \* "none", or the signal that ended the process
    text,              \* the caller's input text
    case_sensitive,    \* the caller's flag for analyze
    op,                \* the last call made
    arg,               \* its argument
    ret,               \* its result (the value of the std::expected, or of the vector)
    err,               \* the error message of the std::expected, "" when it holds a value
    chained,           \* TRUE when arg was the result of the preceding encrypt call
    origin,            \* ... and then the plaintext that encrypt call was given
    encrypted_text_,   \* gui::encrypted_text_
    decrypted_text_,   \* gui::decrypted_text_
    selected_cipher_,  \* gui::selected_cipher_
    transposition_key, \* gui::transposition_key, the value of the "Transposition Key" input
    should_exit_,      \* gui::should_exit_
    is_initialized_,   \* gui::is_initialized_ (std::atomic<bool>)
    title_,            \* gui::title_
    window_,           \* gui::window_, a pointer
    renderer_,         \* gui::renderer_, a pointer
    main_loop_mutex_,  \* gui::main_loop_mutex_: Free, or the thread that holds it
    sdl_initialized,   \* SDL: SDL_Init succeeded and SDL_Quit has not been called since
    window_state,      \* SDL: the window last created: "none", "open", or "destroyed"
                       \*      once SDL_DestroyWindow was called for it
    renderer_state,    \* SDL: the renderer last created: "none", "open", or "destroyed"
                       \*      once SDL_DestroyRenderer was called for it
    imgui_context,     \* Dear ImGui: a context with its two backends exists
    pc,                \* per thread: where it is inside its call of a gui function
    call,              \* per thread: the gui function it called last
    result,            \* per thread: what that call returned
    files,             \* the files the last "Decrypt Brute" save wrote
    frames,            \* history: how many frames handled a user interaction
    last_frame,        \* history: what the last frame of main_loop ran on
    torn_down,         \* history: shutdown tore the GUI down and no initialize began since
    proceeded          \* history: threads past initialize's check since the flag was last cleared

text_vars == <<encrypted_text_, decrypted_text_, selected_cipher_, transposition_key, files,
               frames>>
life_vars == <<should_exit_, is_initialized_, title_, window_, renderer_, main_loop_mutex_,
               sdl_initialized, window_state, renderer_state, imgui_context, pc, call,
               result, last_frame, torn_down, proceeded>>
gui_vars == <<text_vars, life_vars>>

vars == <<encryption_map_, decryption_map_, sub_key, sub_fresh, key_, t_key, fault,
          text, case_sensitive, op, arg, ret, err, chained, origin, gui_vars>>

subst_vars == <<encryption_map_, decryption_map_, sub_key, sub_fresh>>
trans_vars == <<key_, t_key>>

----------------------------------------------------------------------------
(* Bounds of the model *)

MaxLen == 3          \* longest enumerated cipher input
MaxTextLen == 3      \* longest enumerated analyzer input
MaxFrames == 4       \* frames with a user interaction in one run of the GUI

----------------------------------------------------------------------------
(* Characters *)

UpperA == 65
UpperZ == 90
LowerA == 97
LowerZ == 122
Bang == UpperA - 32          \* '!', a character that is no letter
LettersPerCase == 26

INT_MAX == 2147483647
INT_MIN == -INT_MAX - 1

\* std::isupper / std::islower / std::isalpha in the "C" locale
isupper(ch) == ch >= UpperA /\ ch <= UpperZ
islower(ch) == ch >= LowerA /\ ch <= LowerZ
isalpha(ch) == isupper(ch) \/ islower(ch)

\* static_cast<char>(int): the low eight bits
to_char(v) == v % 256

\* C++ a % b for b > 0: the quotient truncates toward zero, so the remainder
\* takes the sign of a
RemC(a, b) == IF a >= 0 THEN a % b
              ELSE IF a % b = 0 THEN 0 ELSE (a % b) - b

LetterOnly(s) == \A i \in 1..Len(s) : isalpha(s[i])
HasLetter(s) == \E i \in 1..Len(s) : isalpha(s[i])

StringsOver(chars, n) == UNION {[1..k -> chars] : k \in 0..n}

\* named inputs taken from the specification's examples
HelloWorld == <<72, 101, 108, 108, 111, 44, 32, 87, 111, 114, 108, 100, 33>>  \* "Hello, World!"
AbcXYZ == <<97, 98, 99, 88, 89, 90>>                                         \* "abcXYZ"
DefABC == <<100, 101, 102, 65, 66, 67>>                                      \* "defABC"
IfmmpXpsme == <<73, 102, 109, 109, 112, 44, 32, 88, 112, 115, 109, 101, 33>>  \* "Ifmmp, Xpsme!"
IFMMPxPSME == <<105, 70, 77, 77, 80, 44, 32, 120, 80, 83, 77, 69, 33>>        \* "iFMMP, xPSME!"

CipherChars == {UpperA, LowerZ, Bang}
Texts == StringsOver(CipherChars, MaxLen) \cup {HelloWorld, AbcXYZ, IfmmpXpsme}

----------------------------------------------------------------------------
(* transposition_cipher *)

initial_key == 42

TKeys == {INT_MIN, -27, -26, -25, -3, -1} \cup (0..27) \cup {initial_key, 52, INT_MAX}

\* set_key: key_ = std::abs(key) % 26.  std::abs(INT_MIN) overflows (undefined):
\* the negation either wraps to INT_MIN, leaving a negative remainder, or the
\* optimizer folds the magnitude 2^31 = INT_MAX + 1 before the remainder.
set_key_outcomes(key) ==
    IF key = INT_MIN
    THEN {RemC(INT_MIN, LettersPerCase),
          ((INT_MAX % LettersPerCase) + 1) % LettersPerCase}
    ELSE {RemC(IF key < 0 THEN -key ELSE key, LettersPerCase)}

\* a loop body that rotates every character, letter or not
encrypt_char_unguarded(ch, key) ==
    LET base == IF isupper(ch) THEN UpperA ELSE LowerA
    IN  to_char(RemC(ch - base + key, LettersPerCase) + base)

\* the body of encrypt's loop
encrypt_char(ch, key) ==
    IF isalpha(ch)
    THEN LET base == IF isupper(ch) THEN UpperA ELSE LowerA
         IN  to_char(RemC(ch - base + key, LettersPerCase) + base)
    ELSE ch

\* a loop body that leaves a negative remainder as it is
decrypt_char_without_wrap(ch, key) ==
    IF isalpha(ch)
    THEN LET base == IF isupper(ch) THEN UpperA ELSE LowerA
         IN  to_char(RemC(ch - base - key, LettersPerCase) + base)
    ELSE ch

\* the body of decrypt's loop
decrypt_char(ch, key) ==
    IF isalpha(ch)
    THEN LET base == IF isupper(ch) THEN UpperA ELSE LowerA
             shifted0 == RemC(ch - base - key, LettersPerCase)
             shifted == IF shifted0 < 0 THEN shifted0 + LettersPerCase ELSE shifted0
         IN  to_char(shifted + base)
    ELSE ch

transposition_encrypt(input, key) == [i \in 1..Len(input) |-> encrypt_char(input[i], key)]
transposition_decrypt(input, key) == [i \in 1..Len(input) |-> decrypt_char(input[i], key)]

\* a loop that starts at shift 0 instead of 1
decrypt_all_shifts_from_zero(input) ==
    [n \in 1..25 |->
        transposition_decrypt(input, CHOOSE k \in set_key_outcomes(n - 1) : TRUE)]

\* decrypt_all_shifts: for shift 1..25, a cipher constructed from shift decrypts
\* the input; decrypt always holds a value, so every result is pushed.
\* (set_key_outcomes is a singleton for these shifts.)
decrypt_all_shifts(input) ==
    [shift \in 1..25 |->
        transposition_decrypt(input, CHOOSE k \in set_key_outcomes(shift) : TRUE)]

----------------------------------------------------------------------------
(* substitution_cipher *)

\* "IDvCtWclkuPZOgXshNwoBjSJzdxVMUpQGRrqEfLmbnTiFyaHeKAY"
initial_mapping ==
    <<73, 68, 118, 67, 116, 87, 99, 108, 107, 117, 80, 90, 79, 103, 88, 115, 104, 78,
      119, 111, 66, 106, 83, 74, 122, 100, 120, 86, 77, 85, 112, 81, 71, 82, 114, 113,
      69, 102, 76, 109, 98, 110, 84, 105, 70, 121, 97, 72, 101, 75, 65, 89>>

\* "BCDEFGHIJKLMNOPQRSTUVWXYZAbcdefghijklmnopqrstuvwxyza"
ShiftByOneKey ==
    <<66, 67, 68, 69, 70, 71, 72, 73, 74, 75, 76, 77, 78, 79, 80, 81, 82, 83, 84, 85,
      86, 87, 88, 89, 90, 65, 98, 99, 100, 101, 102, 103, 104, 105, 106, 107, 108, 109,
      110, 111, 112, 113, 114, 115, 116, 117, 118, 119, 120, 121, 122, 97>>

CollidingKey == <<LowerZ, Bang>>     \* "z!": two characters cycled, one not a letter
EmptyKey == << >>

SubKeys == {initial_mapping, ShiftByOneKey, CollidingKey, EmptyKey}

alphabet_upper_first == [i \in 1..52 |-> IF i <= 26 THEN UpperA + (i - 1) ELSE LowerA + (i - 27)]

\* constexpr auto alphabet{"abcdefghijklmnopqrstuvwxyzABCDEFGHIJKLMNOPQRSTUVWXYZ"}
alphabet == [i \in 1..52 |-> IF i <= 26 THEN LowerA + (i - 1) ELSE UpperA + (i - 27)]

EmptyMap == << >>

\* The smallest index i (1-based) at which seq[i] = c
FirstIndexOf(seq, c) ==
    LET at == {i \in 1..Len(seq) : seq[i] = c}
    IN  CHOOSE i \in at : \A j \in at : i <= j

\* The largest index i (1-based) at which seq[i] = c
LastIndexOf(seq, c) ==
    LET at == {i \in 1..Len(seq) : seq[i] = c}
    IN  CHOOSE i \in at : \A j \in at : j <= i

\* The 52 characters set_key reads for a mapping of length n > 0:
\* mapping[i % mapping.size()] for i = 0..51, listed 1-based
cycled(mapping) == [i \in 1..Len(alphabet) |-> mapping[((i - 1) % Len(mapping)) + 1]]

\* a loop that fills the inverse map with the forward entries
loop_assignments_not_inverted(read) ==
    LET letters == {alphabet[i] : i \in 1..Len(alphabet)}
    IN  [enc |-> [c \in letters |-> read[LastIndexOf(alphabet, c)]],
         dec |-> [c \in letters |-> read[LastIndexOf(alphabet, c)]]]

\* What set_key's loop assigns when it reads the characters read: iteration i
\* (0-based) assigns encryption_map_[alphabet[i]] = read[i] and
\* decryption_map_[read[i]] = alphabet[i] with std::map::operator[], so for each
\* map key the last assignment is the one that stays.
loop_assignments(read) ==
    LET letters == {alphabet[i] : i \in 1..Len(alphabet)}
        used == {read[i] : i \in 1..Len(alphabet)}
    IN  [enc |-> [c \in letters |-> read[LastIndexOf(alphabet, c)]],
         dec |-> [c \in used |-> alphabet[LastIndexOf(read, c)]]]

\* std::map::operator[] assignments made to a map that already holds entries:
\* assigned keys take the new value, every other entry is kept
assign_all(m, assigned) ==
    [c \in (DOMAIN m) \cup (DOMAIN assigned) |->
        IF c \in DOMAIN assigned THEN assigned[c] ELSE m[c]]

\* What mapping[i % 0] can do.  Where integer division by zero traps, the
\* process ends with SIGFPE in the first iteration; where it does not trap, the
\* remainder is i and mapping[i] reads 52 bytes past the empty view.
OutOfBoundsReads == {[i \in 1..52 |-> 0], alphabet}

\* Every sequence of 52 characters the loop can read in this model, and what it
\* assigns for each (evaluated once)
KeyReads == {cycled(k) : k \in SubKeys \ {EmptyKey}} \cup OutOfBoundsReads
AssignmentsOf == [read \in KeyReads |-> loop_assignments(read)]

\* set_key's loop on a cipher holding the maps enc and dec
set_key_loop(enc, dec, read) ==
    LET a == AssignmentsOf[read]
    IN  [enc |-> assign_all(enc, a.enc), dec |-> assign_all(dec, a.dec), fault |-> "none"]

\* set_key(mapping) on a cipher holding the maps enc and dec: the set of outcomes
substitution_set_key(enc, dec, mapping) ==
    IF Len(mapping) = 0
    THEN {[enc |-> enc, dec |-> dec, fault |-> "SIGFPE"]}
         \cup {set_key_loop(enc, dec, g) : g \in OutOfBoundsReads}
    ELSE {set_key_loop(enc, dec, cycled(mapping))}

\* the lookup both transforms share: the mapped character, or the character itself
map_char(m, ch) == IF ch \in DOMAIN m THEN m[ch] ELSE ch

substitution_encrypt(input, enc) == [i \in 1..Len(input) |-> map_char(enc, input[i])]
substitution_decrypt(input, dec) == [i \in 1..Len(input) |-> map_char(dec, input[i])]

\* a mapping that sends no two alphabet letters to the same character
NonColliding(mapping) ==
    /\ Len(mapping) > 0
    /\ \A i, j \in 1..Len(alphabet) : i # j => cycled(mapping)[i] # cycled(mapping)[j]

\* a cipher freshly constructed from mapping (non-empty)
FreshCipher(mapping) == set_key_loop(EmptyMap, EmptyMap, cycled(mapping))

\* keys for the specification that runs both ciphers side by side
FrameKeys == {INT_MIN, -3, 0, initial_key}

----------------------------------------------------------------------------
(* frequency_analyzer *)

LowerB == LowerA + 1
UpperB == UpperA + 1
FreqChars == {UpperA, LowerA, UpperB, LowerB, Bang}
AaBb == <<UpperA, LowerA, UpperB, LowerB>>     \* "AaBb"
FreqTexts == StringsOver(FreqChars, MaxTextLen) \cup {AaBb}

MantissaBits == 24             \* significand of an IEEE-754 binary32 (float)

\* A positive float is [m, k]: the value m / 2^k with 2^23 <= m < 2^24; zero is [0, 0].
\* float_div(n, d): static_cast<float>(n) / static_cast<float>(d), rounded to
\* nearest, ties to even, for integers 0 < n, d < 2^24 (exact as floats)
RECURSIVE float_scale(_, _, _)
float_scale(n, d, k) ==
    IF n * (2 ^ (k + 1)) < (2 ^ MantissaBits) * d THEN float_scale(n, d, k + 1) ELSE k

float_div(n, d) ==
    LET k == float_scale(n, d, 0)
        q == (n * (2 ^ k)) \div d
        r == (n * (2 ^ k)) % d
        up == (2 * r > d) \/ (2 * r = d /\ q % 2 = 1)
        m == IF up THEN q + 1 ELSE q
    IN  IF m = 2 ^ MantissaBits THEN [m |-> 2 ^ (MantissaBits - 1), k |-> k - 1]
        ELSE [m |-> m, k |-> k]

FloatZero == [m |-> 0, k |-> 0]

\* a counting loop that ignores case_sensitive
bucket_of_always_folding(ch, cs) ==
    IF ch >= UpperA /\ ch <= UpperZ THEN ch - UpperA
    ELSE IF ch >= LowerA /\ ch <= LowerZ THEN ch - LowerA
    ELSE -1

\* the index into counts the counting loop increments for ch, -1 when it counts nothing
bucket_of(ch, cs) ==
    IF ch >= UpperA /\ ch <= UpperZ THEN ch - UpperA
    ELSE IF ch >= LowerA /\ ch <= LowerZ
         THEN (IF cs THEN LettersPerCase + (ch - LowerA) ELSE ch - LowerA)
    ELSE -1

\* counts after the counting loop: std::array<int, 52>, indices 0..51
counts_of(txt, cs) ==
    [i \in 0..(2 * LettersPerCase - 1) |->
        Cardinality({j \in 1..Len(txt) : bucket_of(txt[j], cs) = i})]

\* a total that counts every character
total_characters(txt) == Len(txt)

\* total_letters after the counting loop
total_letters_of(txt) ==
    Cardinality({j \in 1..Len(txt) : bucket_of(txt[j], TRUE) >= 0})

\* the letter a record of bucket i carries
letter_of(i) == IF i < LettersPerCase THEN UpperA + i ELSE LowerA + (i - LettersPerCase)

\* the result vector before the sort: one record per bucket i < letter_range
\* with counts[i] > 0, in index order
build_result(txt, cs) ==
    LET counts == counts_of(txt, cs)
        total == total_letters_of(txt)
        letter_range == IF cs THEN 2 * LettersPerCase ELSE LettersPerCase
        hit == {i \in 0..(letter_range - 1) : counts[i] > 0}
        nth(n) == CHOOSE i \in hit : Cardinality({j \in hit : j < i}) = n - 1
    IN  [n \in 1..Cardinality(hit) |->
            [letter |-> letter_of(nth(n)),
             count |-> counts[nth(n)],
             percentage |-> IF total > 0 THEN float_div(counts[nth(n)] * 100, total)
                            ELSE FloatZero]]

\* letter_frequency::operator>
greater(a, b) == a.count > b.count

\* std::sort(result.begin(), result.end(), std::greater<>()): a permutation of v
\* in which no record is followed by a greater one.  std::sort is not stable:
\* the order of records that compare equal is unspecified.
sort_outcomes(v) ==
    {[n \in 1..Len(v) |-> v[p[n]]] : p \in
        {q \in Permutations(1..Len(v)) :
            \A a, b \in 1..Len(v) : a < b => ~greater(v[q[b]], v[q[a]])}}

\* analyze(text, case_sensitive): the vectors it can return
analyze(txt, cs) == sort_outcomes(build_result(txt, cs))

----------------------------------------------------------------------------
(* gui: the singleton's members and the threads that call it *)

Threads == {"main", "other"}
MainThread == "main"

nullptr == "nullptr"
Free == "free"
Titles == {"TProtect", "Untitled"}

AlreadyInitialized == "GUI has already been initialized"
NotInitialized == "GUI has not been initialized"
SdlInitFailed == "Failed to initialize SDL"
WindowFailed == "Failed to create SDL window"
RendererFailed == "Failed to create SDL renderer"
Returned == "returned"         \* a call that returned a value (or void)
NoCall == "none"

NoFiles == << >>

\* the members as the default member initializers leave them
InitGui ==
    /\ encrypted_text_ = << >>
    /\ decrypted_text_ = << >>
    /\ selected_cipher_ = "substitution"
    /\ transposition_key = initial_key
    /\ should_exit_ = FALSE
    /\ is_initialized_ = FALSE
    /\ title_ = ""
    /\ window_ = nullptr
    /\ renderer_ = nullptr
    /\ main_loop_mutex_ = Free
    /\ sdl_initialized = FALSE
    /\ window_state = "none"
    /\ renderer_state = "none"
    /\ imgui_context = FALSE
    /\ pc = [t \in Threads |-> "idle"]
    /\ call = [t \in Threads |-> NoCall]
    /\ result = [t \in Threads |-> NoCall]
    /\ files = NoFiles
    /\ frames = 0
    /\ last_frame = "none"
    /\ torn_down = FALSE
    /\ proceeded = {}

----------------------------------------------------------------------------
(* The objects as gui constructs them, and a caller holding an input text *)

NoResult == << >>

InitObjects ==
    /\ \E o \in substitution_set_key(EmptyMap, EmptyMap, initial_mapping) :
          /\ encryption_map_ = o.enc
          /\ decryption_map_ = o.dec
    /\ sub_key = initial_mapping
    /\ sub_fresh = TRUE
    /\ key_ \in set_key_outcomes(initial_key)
    /\ t_key = initial_key
    /\ fault = "none"
    /\ op = "none"
    /\ arg = NoResult
    /\ ret = NoResult
    /\ err = ""
    /\ chained = FALSE
    /\ origin = NoResult
    /\ InitGui

InitCipher ==
    /\ InitObjects
    /\ text \in Texts
    /\ case_sensitive = FALSE

InitFrequency ==
    /\ InitObjects
    /\ text \in FreqTexts
    /\ case_sensitive \in BOOLEAN

Running == fault = "none"

----------------------------------------------------------------------------
(* Calls on the transposition cipher *)

\* transposition_cipher{key} and set_key(key): the constructor only calls set_key
T_set_key(key) ==
    /\ Running
    /\ key_' \in set_key_outcomes(key)
    /\ t_key' = key
    /\ op' = "t_set_key"
    /\ arg' = <<key>>
    /\ ret' = NoResult
    /\ err' = ""
    /\ chained' = FALSE
    /\ origin' = NoResult
    /\ UNCHANGED <<subst_vars, fault, text, case_sensitive, gui_vars>>

T_encrypt ==
    /\ Running
    /\ op' = "t_encrypt"
    /\ arg' = text
    /\ ret' = transposition_encrypt(text, key_)
    /\ err' = ""
    /\ chained' = FALSE
    /\ origin' = NoResult
    /\ UNCHANGED <<subst_vars, trans_vars, fault, text, case_sensitive, gui_vars>>

\* decrypt of the caller's text
T_decrypt ==
    /\ Running
    /\ op' = "t_decrypt"
    /\ arg' = text
    /\ ret' = transposition_decrypt(text, key_)
    /\ err' = ""
    /\ chained' = FALSE
    /\ origin' = NoResult
    /\ UNCHANGED <<subst_vars, trans_vars, fault, text, case_sensitive, gui_vars>>

\* decrypt of what the preceding encrypt call returned
T_decrypt_result ==
    /\ Running
    /\ op = "t_encrypt"
    /\ op' = "t_decrypt"
    /\ arg' = ret
    /\ ret' = transposition_decrypt(ret, key_)
    /\ err' = ""
    /\ chained' = TRUE
    /\ origin' = arg
    /\ UNCHANGED <<subst_vars, trans_vars, fault, text, case_sensitive, gui_vars>>

T_decrypt_all_shifts ==
    /\ Running
    /\ op' = "t_decrypt_all_shifts"
    /\ arg' = text
    /\ ret' = decrypt_all_shifts(text)
    /\ err' = ""
    /\ chained' = FALSE
    /\ origin' = NoResult
    /\ UNCHANGED <<subst_vars, trans_vars, fault, text, case_sensitive, gui_vars>>

\* brute force of what the preceding encrypt call returned
T_decrypt_all_shifts_result ==
    /\ Running
    /\ op = "t_encrypt"
    /\ op' = "t_decrypt_all_shifts"
    /\ arg' = ret
    /\ ret' = decrypt_all_shifts(ret)
    /\ err' = ""
    /\ chained' = TRUE
    /\ origin' = arg
    /\ UNCHANGED <<subst_vars, trans_vars, fault, text, case_sensitive, gui_vars>>

----------------------------------------------------------------------------
(* Calls on the substitution cipher *)

\* substitution_cipher{mapping}: set_key on the two empty maps of a new object
S_construct(mapping) ==
    /\ Running
    /\ \E o \in substitution_set_key(EmptyMap, EmptyMap, mapping) :
          /\ encryption_map_' = o.enc
          /\ decryption_map_' = o.dec
          /\ fault' = o.fault
    /\ sub_key' = mapping
    /\ sub_fresh' = TRUE
    /\ op' = "s_construct"
    /\ arg' = mapping
    /\ ret' = NoResult
    /\ err' = ""
    /\ chained' = FALSE
    /\ origin' = NoResult
    /\ UNCHANGED <<trans_vars, text, case_sensitive, gui_vars>>

\* set_key(mapping) on the existing object
S_set_key(mapping) ==
    /\ Running
    /\ \E o \in substitution_set_key(encryption_map_, decryption_map_, mapping) :
          /\ encryption_map_' = o.enc
          /\ decryption_map_' = o.dec
          /\ fault' = o.fault
    /\ sub_key' = mapping
    /\ sub_fresh' = FALSE
    /\ op' = "s_set_key"
    /\ arg' = mapping
    /\ ret' = NoResult
    /\ err' = ""
    /\ chained' = FALSE
    /\ origin' = NoResult
    /\ UNCHANGED <<trans_vars, text, case_sensitive, gui_vars>>

S_encrypt ==
    /\ Running
    /\ op' = "s_encrypt"
    /\ arg' = text
    /\ ret' = substitution_encrypt(text, encryption_map_)
    /\ err' = ""
    /\ chained' = FALSE
    /\ origin' = NoResult
    /\ UNCHANGED <<subst_vars, trans_vars, fault, text, case_sensitive, gui_vars>>

\* decrypt of the caller's text
S_decrypt ==
    /\ Running
    /\ op' = "s_decrypt"
    /\ arg' = text
    /\ ret' = substitution_decrypt(text, decryption_map_)
    /\ err' = ""
    /\ chained' = FALSE
    /\ origin' = NoResult
    /\ UNCHANGED <<subst_vars, trans_vars, fault, text, case_sensitive, gui_vars>>

\* decrypt of what the preceding encrypt call returned
S_decrypt_result ==
    /\ Running
    /\ op = "s_encrypt"
    /\ op' = "s_decrypt"
    /\ arg' = ret
    /\ ret' = substitution_decrypt(ret, decryption_map_)
    /\ err' = ""
    /\ chained' = TRUE
    /\ origin' = arg
    /\ UNCHANGED <<subst_vars, trans_vars, fault, text, case_sensitive, gui_vars>>

NextSubstitution ==
    \/ \E mapping \in SubKeys : S_construct(mapping)
    \/ \E mapping \in SubKeys : S_set_key(mapping)
    \/ S_encrypt
    \/ S_decrypt
    \/ S_decrypt_result

SpecSubstitution == InitCipher /\ [][NextSubstitution]_vars

NextTransposition ==
    \/ \E key \in TKeys : T_set_key(key)
    \/ T_encrypt
    \/ T_decrypt
    \/ T_decrypt_result
    \/ T_decrypt_all_shifts
    \/ T_decrypt_all_shifts_result

SpecTransposition == InitCipher /\ [][NextTransposition]_vars

\* both ciphers in one program, as gui holds them
NextCiphers ==
    \/ \E mapping \in SubKeys : S_construct(mapping)
    \/ \E mapping \in SubKeys : S_set_key(mapping)
    \/ S_encrypt
    \/ S_decrypt
    \/ S_decrypt_result
    \/ \E key \in FrameKeys : T_set_key(key)
    \/ T_encrypt
    \/ T_decrypt
    \/ T_decrypt_result

SpecCiphers == InitCipher /\ [][NextCiphers]_vars

----------------------------------------------------------------------------
(* Calls on the frequency analyzer *)

F_analyze ==
    /\ Running
    /\ op' = "analyze"
    /\ arg' = text
    /\ ret' \in analyze(text, case_sensitive)
    /\ err' = ""
    /\ chained' = FALSE
    /\ origin' = NoResult
    /\ UNCHANGED <<subst_vars, trans_vars, fault, text, case_sensitive, gui_vars>>

NextFrequency == F_analyze

SpecFrequency == InitFrequency /\ [][NextFrequency]_vars

----------------------------------------------------------------------------
(* gui: create, destroy and main_loop, step by step for each calling thread *)

\* std::atomic<bool>::compare_exchange_strong(expected, desired) on the value
\* current: whether it exchanged, and the value the atomic holds afterwards
compare_exchange_blind(current, expected, desired) ==
    [exchanged |-> TRUE, value |-> desired]

compare_exchange_strong(current, expected, desired) ==
    IF current = expected
    THEN [exchanged |-> TRUE, value |-> desired]
    ELSE [exchanged |-> FALSE, value |-> current]

\* std::lock_guard's constructor can return once the mutex is free
mutex_ignored(mutex) == TRUE

mutex_available(mutex) == mutex = Free

Idle(t) == pc[t] = "idle"

\* a call of thread t returned r
Return(t, r) ==
    /\ pc' = [pc EXCEPT ![t] = "idle"]
    /\ result' = [result EXCEPT ![t] = r]

\* a call of thread t went on to the step at label
Goto(t, label) ==
    /\ pc' = [pc EXCEPT ![t] = label]
    /\ result' = [result EXCEPT ![t] = NoCall]

\* gui::create -> initialize: the check of is_initialized_, and on success the
\* move into title_ (no other call reads title_)
G_create(t, title) ==
    /\ Running
    /\ Idle(t)
    /\ call' = [call EXCEPT ![t] = "create"]
    /\ LET cas == compare_exchange_strong(is_initialized_, FALSE, TRUE)
       IN  IF cas.exchanged
           THEN /\ is_initialized_' = cas.value
                /\ title_' = title
                /\ proceeded' = proceeded \cup {t}
                /\ torn_down' = FALSE
                /\ Goto(t, "SDL_Init")
           ELSE /\ Return(t, AlreadyInitialized)
                /\ UNCHANGED <<is_initialized_, title_, proceeded, torn_down>>
    /\ op' = "create"
    /\ UNCHANGED <<subst_vars, trans_vars, fault, text, case_sensitive, arg, ret, err,
                   chained, origin, text_vars, should_exit_, window_, renderer_,
                   main_loop_mutex_, sdl_initialized, window_state, renderer_state,
                   imgui_context, last_frame>>

\* initialize: SDL_Init, which succeeds or fails
G_SDL_Init(t) ==
    /\ Running
    /\ pc[t] = "SDL_Init"
    /\ \E succeeded \in BOOLEAN :
          IF succeeded
          THEN /\ sdl_initialized' = TRUE
               /\ Goto(t, "SDL_CreateWindow")
          ELSE /\ Return(t, SdlInitFailed)
               /\ UNCHANGED sdl_initialized
    /\ UNCHANGED <<subst_vars, trans_vars, fault, text, case_sensitive, op, arg, ret, err,
                   chained, origin, text_vars, should_exit_, is_initialized_, title_,
                   window_, renderer_, main_loop_mutex_, window_state, renderer_state,
                   imgui_context, call, last_frame, torn_down, proceeded>>

\* initialize: window_ = SDL_CreateWindow(...), a window or a null pointer
G_SDL_CreateWindow(t) ==
    /\ Running
    /\ pc[t] = "SDL_CreateWindow"
    /\ \E succeeded \in BOOLEAN :
          IF succeeded
          THEN /\ window_' = "window"
               /\ window_state' = "open"
               /\ Goto(t, "SDL_CreateRenderer")
          ELSE /\ window_' = nullptr
               /\ Return(t, WindowFailed)
               /\ UNCHANGED window_state
    /\ UNCHANGED <<subst_vars, trans_vars, fault, text, case_sensitive, op, arg, ret, err,
                   chained, origin, text_vars, should_exit_, is_initialized_, title_,
                   renderer_, main_loop_mutex_, sdl_initialized, renderer_state,
                   imgui_context, call, last_frame, torn_down, proceeded>>

\* initialize: renderer_ = SDL_CreateRenderer(window_, nullptr)
G_SDL_CreateRenderer(t) ==
    /\ Running
    /\ pc[t] = "SDL_CreateRenderer"
    /\ \E succeeded \in BOOLEAN :
          IF succeeded /\ window_ # nullptr
          THEN /\ renderer_' = "renderer"
               /\ renderer_state' = "open"
               /\ Goto(t, "ImGui_Setup")
          ELSE /\ renderer_' = nullptr
               /\ Return(t, RendererFailed)
               /\ UNCHANGED renderer_state
    /\ UNCHANGED <<subst_vars, trans_vars, fault, text, case_sensitive, op, arg, ret, err,
                   chained, origin, text_vars, should_exit_, is_initialized_, title_,
                   window_, main_loop_mutex_, sdl_initialized, window_state,
                   imgui_context, call, last_frame, torn_down, proceeded>>

\* initialize: the window is shown, the Dear ImGui context, its backends and
\* the fonts are set up, and initialize returns a value
G_ImGui_Setup(t) ==
    /\ Running
    /\ pc[t] = "ImGui_Setup"
    /\ imgui_context' = TRUE
    /\ Return(t, Returned)
    /\ UNCHANGED <<subst_vars, trans_vars, fault, text, case_sensitive, op, arg, ret, err,
                   chained, origin, text_vars, should_exit_, is_initialized_, title_,
                   window_, renderer_, main_loop_mutex_, sdl_initialized, window_state,
                   renderer_state, call, last_frame, torn_down, proceeded>>

\* gui::destroy -> shutdown: the check of is_initialized_
G_destroy(t) ==
    /\ Running
    /\ Idle(t)
    /\ call' = [call EXCEPT ![t] = "destroy"]
    /\ LET cas == compare_exchange_strong(is_initialized_, TRUE, FALSE)
       IN  IF cas.exchanged
           THEN /\ is_initialized_' = cas.value
                /\ proceeded' = {}
                /\ Goto(t, "shutdown_lock")
           ELSE /\ Return(t, Returned)
                /\ UNCHANGED <<is_initialized_, proceeded>>
    /\ op' = "destroy"
    /\ UNCHANGED <<subst_vars, trans_vars, fault, text, case_sensitive, arg, ret, err,
                   chained, origin, text_vars, should_exit_, title_, window_, renderer_,
                   main_loop_mutex_, sdl_initialized, window_state, renderer_state,
                   imgui_context, last_frame, torn_down>>

\* shutdown: std::lock_guard main_loop_guard_{main_loop_mutex_}
G_shutdown_lock(t) ==
    /\ Running
    /\ pc[t] = "shutdown_lock"
    /\ mutex_available(main_loop_mutex_)
    /\ main_loop_mutex_' = t
    /\ Goto(t, "shutdown_teardown")
    /\ UNCHANGED <<subst_vars, trans_vars, fault, text, case_sensitive, op, arg, ret, err,
                   chained, origin, text_vars, should_exit_, is_initialized_, title_,
                   window_, renderer_, sdl_initialized, window_state, renderer_state,
                   imgui_context, call, last_frame, torn_down, proceeded>>

\* what SDL_DestroyRenderer does to the renderer last created when it is handed
\* the pointer renderer_: a pointer to a renderer destroyed before is dangling,
\* and then the call either has no effect or ends the process
destroy_renderer_outcomes(pointer, state) ==
    IF pointer = nullptr THEN {[state |-> state, fault |-> "none"]}
    ELSE IF state = "open" THEN {[state |-> "destroyed", fault |-> "none"]}
    ELSE {[state |-> state, fault |-> "none"], [state |-> state, fault |-> "SIGSEGV"]}

\* shutdown's teardown: the backends and the context are shut down; if
\* renderer_ is set the renderer is destroyed and window_ (not renderer_) is
\* reset; if window_ is still set the window is destroyed and window_ reset;
\* SDL_Quit; the guard releases the mutex on return.  What SDL_Quit itself
\* reclaims is SDL's business: window_state and renderer_state record the
\* destroy calls this program makes.
G_shutdown_teardown(t) ==
    /\ Running
    /\ pc[t] = "shutdown_teardown"
    /\ imgui_context' = FALSE
    /\ \E o \in destroy_renderer_outcomes(renderer_, renderer_state) :
          /\ renderer_state' = o.state
          /\ fault' = o.fault
    /\ LET window_after_renderer == IF renderer_ # nullptr THEN nullptr ELSE window_
       IN  /\ window_state' = IF window_after_renderer # nullptr
                              THEN "destroyed" ELSE window_state
           /\ window_' = nullptr
    /\ sdl_initialized' = FALSE
    /\ torn_down' = TRUE
    /\ main_loop_mutex_' = Free
    /\ Return(t, Returned)
    /\ UNCHANGED <<subst_vars, trans_vars, text, case_sensitive, op, arg, ret, err,
                   chained, origin, text_vars, should_exit_, is_initialized_, title_,
                   renderer_, call, last_frame, proceeded>>

\* main_loop: the first operand of the check, is_initialized()
G_main_loop(t) ==
    /\ Running
    /\ Idle(t)
    /\ call' = [call EXCEPT ![t] = "main_loop"]
    /\ IF is_initialized_
       THEN Goto(t, "check_window")
       ELSE Return(t, NotInitialized)
    /\ op' = "main_loop"
    /\ UNCHANGED <<subst_vars, trans_vars, fault, text, case_sensitive, arg, ret, err,
                   chained, origin, text_vars, should_exit_, is_initialized_, title_,
                   window_, renderer_, main_loop_mutex_, sdl_initialized, window_state,
                   renderer_state, imgui_context, last_frame, torn_down, proceeded>>

\* main_loop: the second operand of the check, window_ (read without the mutex)
G_check_window(t) ==
    /\ Running
    /\ pc[t] = "check_window"
    /\ IF window_ # nullptr
       THEN Goto(t, "main_loop_lock")
       ELSE Return(t, NotInitialized)
    /\ UNCHANGED <<subst_vars, trans_vars, fault, text, case_sensitive, op, arg, ret, err,
                   chained, origin, text_vars, should_exit_, is_initialized_, title_,
                   window_, renderer_, main_loop_mutex_, sdl_initialized, window_state,
                   renderer_state, imgui_context, call, last_frame, torn_down, proceeded>>

\* main_loop: std::lock_guard main_loop_guard_{main_loop_mutex_}
G_main_loop_lock(t) ==
    /\ Running
    /\ pc[t] = "main_loop_lock"
    /\ mutex_available(main_loop_mutex_)
    /\ main_loop_mutex_' = t
    /\ Goto(t, "frame_loop")
    /\ UNCHANGED <<subst_vars, trans_vars, fault, text, case_sensitive, op, arg, ret, err,
                   chained, origin, text_vars, should_exit_, is_initialized_, title_,
                   window_, renderer_, sdl_initialized, window_state, renderer_state,
                   imgui_context, call, last_frame, torn_down, proceeded>>

\* thread t is inside while (!should_exit_) and the loop goes round once more
InFrame(t) == pc[t] = "frame_loop" /\ ~should_exit_

\* what a frame runs on, and what becomes of the process: a frame polls events,
\* starts a Dear ImGui frame and renders through window_ and renderer_; without
\* a context and a renderer these calls work on null or dangling pointers
frame_kind == IF torn_down THEN "after_teardown" ELSE "running"
frame_faults == IF imgui_context /\ renderer_state = "open" /\ window_state = "open"
                THEN {"none"} ELSE {"none", "SIGSEGV"}

\* one round of the loop without user interaction; an SDL_EVENT_QUIT or a
\* close request for the window sets should_exit_
G_frame(t) ==
    /\ Running
    /\ InFrame(t)
    /\ last_frame' = frame_kind
    /\ fault' \in frame_faults
    /\ should_exit_' \in BOOLEAN
    /\ UNCHANGED <<subst_vars, trans_vars, text, case_sensitive, op, arg, ret, err,
                   chained, origin, text_vars, is_initialized_, title_, window_,
                   renderer_, main_loop_mutex_, sdl_initialized, window_state,
                   renderer_state, imgui_context, pc, call, result, torn_down, proceeded>>

\* main_loop: should_exit_ ends the loop, the guard releases the mutex and
\* main_loop returns a value
G_main_loop_return(t) ==
    /\ Running
    /\ pc[t] = "frame_loop"
    /\ should_exit_
    /\ main_loop_mutex_' = Free
    /\ Return(t, Returned)
    /\ UNCHANGED <<subst_vars, trans_vars, fault, text, case_sensitive, op, arg, ret, err,
                   chained, origin, text_vars, should_exit_, is_initialized_, title_,
                   window_, renderer_, sdl_initialized, window_state, renderer_state,
                   imgui_context, call, last_frame, torn_down, proceeded>>

\* the steps of the three calls, taken by thread t
Lifecycle(t) ==
    \/ \E title \in Titles : G_create(t, title)
    \/ G_SDL_Init(t)
    \/ G_SDL_CreateWindow(t)
    \/ G_SDL_CreateRenderer(t)
    \/ G_ImGui_Setup(t)
    \/ G_destroy(t)
    \/ G_shutdown_lock(t)
    \/ G_shutdown_teardown(t)
    \/ G_main_loop(t)
    \/ G_check_window(t)
    \/ G_main_loop_lock(t)
    \/ G_frame(t)
    \/ G_main_loop_return(t)

InitWindow ==
    /\ InitObjects
    /\ text = NoResult
    /\ case_sensitive = FALSE

NextLifecycle == \E t \in Threads : Lifecycle(t)

SpecLifecycle == InitWindow /\ [][NextLifecycle]_vars

----------------------------------------------------------------------------
(* gui: render_window and process_file, one user interaction per frame *)

GuiTexts == {<< >>, <<UpperA>>, <<LowerZ, Bang>>, AbcXYZ}
GuiKeys == {-3, 0, 3}
Ciphers == {"substitution", "transposition"}

\* the lambda behind the Encrypt button, on the gui's two cipher members
gui_encrypt_substitution_only(selected, input) ==
    substitution_encrypt(input, encryption_map_)

gui_encrypt(selected, input) ==
    IF selected = "substitution"
    THEN substitution_encrypt(input, encryption_map_)
    ELSE transposition_encrypt(input, key_)

\* the lambda behind the Decrypt button
gui_decrypt(selected, input) ==
    IF selected = "substitution"
    THEN substitution_decrypt(input, decryption_map_)
    ELSE transposition_decrypt(input, key_)

\* process_file's "##SaveDecryptedBrute" branch: for i in iota(1, 27) a cipher
\* constructed from i decrypts the text, and the result goes to file <name>_i
\* (set_key_outcomes is a singleton for these keys)
brute_force_files(input) ==
    [i \in 1..26 |->
        LET shift == CHOOSE k \in set_key_outcomes(i) : TRUE
        IN  [shift |-> shift, content |-> transposition_decrypt(input, shift)]]

\* a frame of thread t in which the widgets can be used
Interactive(t) ==
    /\ Running
    /\ InFrame(t)
    /\ frame_faults = {"none"}
    /\ frames < MaxFrames

\* what every such frame does besides its widget's effect
Frame(name) ==
    /\ op' = name
    /\ frames' = frames + 1
    /\ last_frame' = frame_kind
    /\ err' = ""
    /\ chained' = FALSE
    /\ origin' = NoResult
    /\ UNCHANGED <<subst_vars, trans_vars, fault, text, case_sensitive>>
    /\ UNCHANGED <<is_initialized_, title_, window_, renderer_, main_loop_mutex_,
                   sdl_initialized, window_state, renderer_state, imgui_context, pc,
                   call, result, torn_down, proceeded>>

\* InputTextMultiline("##Decrypted"), or a file loaded through "##LoadDecrypted"
W_input_decrypted(t, txt) ==
    /\ Interactive(t)
    /\ decrypted_text_' = txt
    /\ arg' = txt
    /\ ret' = NoResult
    /\ Frame("input decrypted")
    /\ UNCHANGED <<encrypted_text_, selected_cipher_, transposition_key, files,
                   should_exit_>>

\* InputTextMultiline("##Encrypted"), or a file loaded through "##LoadEncrypted"
W_input_encrypted(t, txt) ==
    /\ Interactive(t)
    /\ encrypted_text_' = txt
    /\ arg' = txt
    /\ ret' = NoResult
    /\ Frame("input encrypted")
    /\ UNCHANGED <<decrypted_text_, selected_cipher_, transposition_key, files,
                   should_exit_>>

\* the two radio buttons
W_select(t, cipher) ==
    /\ Interactive(t)
    /\ selected_cipher_' = cipher
    /\ arg' = NoResult
    /\ ret' = NoResult
    /\ Frame("select")
    /\ UNCHANGED <<encrypted_text_, decrypted_text_, transposition_key, files,
                   should_exit_>>

\* the Encrypt button
W_encrypt(t) ==
    /\ Interactive(t)
    /\ encrypted_text_' = gui_encrypt(selected_cipher_, decrypted_text_)
    /\ arg' = decrypted_text_
    /\ ret' = gui_encrypt(selected_cipher_, decrypted_text_)
    /\ Frame("Encrypt")
    /\ UNCHANGED <<decrypted_text_, selected_cipher_, transposition_key, files,
                   should_exit_>>

\* the Decrypt button
W_decrypt(t) ==
    /\ Interactive(t)
    /\ decrypted_text_' = gui_decrypt(selected_cipher_, encrypted_text_)
    /\ arg' = encrypted_text_
    /\ ret' = gui_decrypt(selected_cipher_, encrypted_text_)
    /\ Frame("Decrypt")
    /\ UNCHANGED <<encrypted_text_, selected_cipher_, transposition_key, files,
                   should_exit_>>

\* InputInt("##TranspositionKey"), shown while transposition is selected
W_input_key(t, key) ==
    /\ Interactive(t)
    /\ selected_cipher_ = "transposition"
    /\ transposition_key' = key
    /\ arg' = <<key>>
    /\ ret' = NoResult
    /\ Frame("input key")
    /\ UNCHANGED <<encrypted_text_, decrypted_text_, selected_cipher_, files,
                   should_exit_>>

\* the Decrypt Brute button, shown while transposition is selected, with a
\* path confirmed in its dialog
W_decrypt_brute(t) ==
    /\ Interactive(t)
    /\ selected_cipher_ = "transposition"
    /\ files' = brute_force_files(encrypted_text_)
    /\ arg' = encrypted_text_
    /\ ret' = NoResult
    /\ Frame("Decrypt Brute")
    /\ UNCHANGED <<encrypted_text_, decrypted_text_, selected_cipher_,
                   transposition_key, should_exit_>>

\* the Exit button, confirmed
W_exit(t) ==
    /\ Interactive(t)
    /\ should_exit_' = TRUE
    /\ arg' = NoResult
    /\ ret' = NoResult
    /\ Frame("Exit")
    /\ UNCHANGED <<encrypted_text_, decrypted_text_, selected_cipher_,
                   transposition_key, files>>

Widgets(t) ==
    \/ \E txt \in GuiTexts : W_input_decrypted(t, txt)
    \/ \E txt \in GuiTexts : W_input_encrypted(t, txt)
    \/ \E cipher \in Ciphers : W_select(t, cipher)
    \/ W_encrypt(t)
    \/ W_decrypt(t)
    \/ \E key \in GuiKeys : W_input_key(t, key)
    \/ W_decrypt_brute(t)
    \/ W_exit(t)

\* the program of main.cpp: one thread creates the GUI, runs its loop, in
\* which the user works, and destroys it
NextWindow ==
    \/ Lifecycle(MainThread)
    \/ Widgets(MainThread)

SpecWindow == InitWindow /\ [][NextWindow]_vars

----------------------------------------------------------------------------
(* Transposition cipher: properties *)

\* C1: for every letter-only x and every integer shift s, decrypt(encrypt(x)) = x
\* under the cipher keyed with s, and keys 0 and 26 make encrypt and decrypt
\* the identity.
C1_RoundTripEveryShift ==
    /\ (op = "t_decrypt" /\ chained /\ LetterOnly(origin)) => ret = origin
    /\ (t_key \in {0, 26} /\ op \in {"t_encrypt", "t_decrypt"}) => ret = arg

\* C4: decrypt_all_shifts returns exactly 25 entries; entry s (1-based) is the
\* input with every letter moved back by s within its case and every other
\* character kept, for s = 1..25 in this order, so no entry comes from shift 0;
\* applied to encrypt(x) under a key k in 1..25, entry k - 1 (0-based) is x.
C4_BruteForce ==
    op = "t_decrypt_all_shifts" =>
        /\ Len(ret) = 25
        /\ \A s \in 1..25 :
              /\ Len(ret[s]) = Len(arg)
              /\ \A i \in 1..Len(arg) :
                    IF isalpha(arg[i])
                    THEN /\ isupper(ret[s][i]) = isupper(arg[i])
                         /\ isalpha(ret[s][i])
                         /\ (arg[i] - ret[s][i]) % LettersPerCase = s
                    ELSE ret[s][i] = arg[i]
        /\ (chained /\ t_key \in 1..25) => ret[t_key] = origin

\* the specification's example: key 3, "abcXYZ" -> "defABC", found again at index 2
C4_Witness ==
    /\ op = "t_decrypt_all_shifts"
    /\ chained
    /\ t_key = 3
    /\ origin = AbcXYZ
    /\ arg = DefABC
    /\ ret[3] = AbcXYZ

----------------------------------------------------------------------------
(* Substitution cipher: properties *)

TransformOps == {"s_encrypt", "s_decrypt", "t_encrypt", "t_decrypt"}

\* C2: with a non-colliding key in force, decrypt(encrypt(x)) = x for every
\* letter-only x.
C2_RoundTrip ==
    (op = "s_decrypt" /\ chained /\ LetterOnly(origin) /\ NonColliding(sub_key))
        => ret = origin

\* a freshly constructed cipher took "abcXYZ" to another text and back
C2_Witness ==
    /\ op = "s_decrypt"
    /\ chained
    /\ sub_fresh
    /\ sub_key = ShiftByOneKey
    /\ origin = AbcXYZ
    /\ arg # AbcXYZ
    /\ ret = AbcXYZ

\* C3 as claimed: each of the four transforms keeps the length and keeps every
\* non-alphabetic character of the input at its position, whatever the key.
C3_NonAlphaUntouched ==
    op \in TransformOps =>
        /\ Len(ret) = Len(arg)
        /\ \A i \in 1..Len(arg) : ~isalpha(arg[i]) => ret[i] = arg[i]

\* C3 amended: each of the four transforms keeps the length; substitution
\* encrypt and both transposition transforms keep every non-alphabetic
\* character at its position, and substitution decrypt keeps every
\* non-alphabetic character that is not a key of the inverse map.
C3_Frame ==
    op \in TransformOps =>
        /\ Len(ret) = Len(arg)
        /\ \A i \in 1..Len(arg) :
              (~isalpha(arg[i]) /\ (op = "s_decrypt" => arg[i] \notin DOMAIN decryption_map_))
                  => ret[i] = arg[i]

\* a transposition transform changed the letters of a text and kept its '!',
\* while the substitution cipher holds an inverse entry for '!'
C3_Witness ==
    /\ op = "t_encrypt"
    /\ Bang \in DOMAIN decryption_map_
    /\ \E i, j \in 1..Len(arg) :
          /\ arg[i] = Bang /\ ret[i] = Bang
          /\ isalpha(arg[j]) /\ ret[j] # arg[j]

\* C5 as claimed: in a cipher constructed from the shift-by-one key every letter goes to its successor
\* in the same case: "Hello, World!" encrypts to "Ifmmp, Xpsme!", which decrypts
\* to "Hello, World!"; key position i belongs to the i-th letter of A-Z a-z.
C5_SameCaseSuccessor ==
    (sub_key = ShiftByOneKey /\ sub_fresh /\ Running) =>
        /\ (op = "s_encrypt" /\ arg = HelloWorld) => ret = IfmmpXpsme
        /\ (op = "s_decrypt" /\ arg = IfmmpXpsme) => ret = HelloWorld
        /\ \A i \in 0..25 :
              /\ encryption_map_[UpperA + i] = ShiftByOneKey[i + 1]
              /\ encryption_map_[LowerA + i] = ShiftByOneKey[i + 27]

\* C5 amended: key position i belongs to the i-th letter of a-z A-Z, so in a
\* cipher constructed from the shift-by-one key every letter goes to its successor in the other case:
\* "Hello, World!" encrypts to "iFMMP, xPSME!", and decrypting that ciphertext
\* returns "Hello, World!".
C5_OtherCaseSuccessor ==
    (sub_key = ShiftByOneKey /\ sub_fresh /\ Running) =>
        /\ (op = "s_encrypt" /\ arg = HelloWorld) => ret = IFMMPxPSME
        /\ (op = "s_decrypt" /\ arg = IFMMPxPSME) => ret = HelloWorld
        /\ \A i \in 0..25 :
              /\ encryption_map_[LowerA + i] = ShiftByOneKey[i + 1]
              /\ encryption_map_[UpperA + i] = ShiftByOneKey[i + 27]
              /\ encryption_map_[LowerA + i] = UpperA + ((i + 1) % LettersPerCase)
              /\ encryption_map_[UpperA + i] = LowerA + ((i + 1) % LettersPerCase)

\* "Hello, World!" went to "iFMMP, xPSME!" and came back
C5_Witness ==
    /\ sub_key = ShiftByOneKey
    /\ sub_fresh
    /\ op = "s_decrypt"
    /\ chained
    /\ origin = HelloWorld
    /\ arg = IFMMPxPSME
    /\ ret = HelloWorld

\* C6: a constructor or set_key call given the empty key reports the error
\* "empty key", never divides by zero (the process keeps running), and set_key
\* leaves both maps as they were.
C6_EmptyKeyRejected ==
    [][(op' \in {"s_construct", "s_set_key"} /\ arg' = EmptyKey) =>
          /\ err' = "empty key"
          /\ fault' = "none"
          /\ (op' = "s_set_key" => UNCHANGED <<encryption_map_, decryption_map_>>)]_vars

\* C7: whatever keys were set before, after set_key(k) encrypt and decrypt
\* return what a cipher freshly constructed from k returns.
C7_ReplacedWholesale ==
    (Running /\ Len(sub_key) > 0) =>
        /\ op = "s_encrypt" => ret = substitution_encrypt(arg, FreshCipher(sub_key).enc)
        /\ op = "s_decrypt" => ret = substitution_decrypt(arg, FreshCipher(sub_key).dec)

----------------------------------------------------------------------------
(* Frequency analyzer: properties *)

\* the bucket a record's letter names: A-Z are 0..25, a-z are 26..51
BucketIndex(letter) ==
    IF isupper(letter) THEN letter - UpperA ELSE LettersPerCase + (letter - LowerA)

Occurrences(txt, ch) == Cardinality({j \in 1..Len(txt) : txt[j] = ch})

LetterCount(txt) == Cardinality({j \in 1..Len(txt) : isalpha(txt[j])})

\* how often the text holds a letter of bucket b, counted from the text alone
InBucket(txt, cs, b) ==
    IF b < LettersPerCase
    THEN Occurrences(txt, UpperA + b) + (IF cs THEN 0 ELSE Occurrences(txt, LowerA + b))
    ELSE IF cs THEN Occurrences(txt, LowerA + (b - LettersPerCase)) ELSE 0

RECURSIVE SumOfCounts(_)
SumOfCounts(v) == IF Len(v) = 0 THEN 0 ELSE v[1].count + SumOfCounts(Tail(v))

\* the float p is the float nearest to n / d
NearestFloat(p, n, d) ==
    /\ p.m >= 2 ^ (MantissaBits - 1)
    /\ p.m < 2 ^ MantissaBits
    /\ LET diff == p.m * d - n * (2 ^ p.k)
       IN  2 * (IF diff < 0 THEN -diff ELSE diff) <= d

\* C8: the returned sequence is sorted by count descending, and records with
\* equal counts appear in bucket-index order.
C8_StableOrder ==
    op = "analyze" =>
        \A a, b \in 1..Len(ret) :
            a < b =>
                \/ ret[a].count > ret[b].count
                \/ /\ ret[a].count = ret[b].count
                   /\ BucketIndex(ret[a].letter) < BucketIndex(ret[b].letter)

\* C9: analyze returns exactly one record per bucket the text hits and none
\* for the others; the counts add up to the number of ASCII letters of the
\* text; each percentage is the float of 100 * count / letters counted.
C9_Records ==
    op = "analyze" =>
        /\ \A b \in 0..(2 * LettersPerCase - 1) :
              Cardinality({n \in 1..Len(ret) : BucketIndex(ret[n].letter) = b})
                  = IF InBucket(arg, case_sensitive, b) > 0 THEN 1 ELSE 0
        /\ \A n \in 1..Len(ret) : isalpha(ret[n].letter) /\ ret[n].count > 0
        /\ SumOfCounts(ret) = LetterCount(arg)
        /\ \A n \in 1..Len(ret) :
              NearestFloat(ret[n].percentage, 100 * ret[n].count, LetterCount(arg))

\* "a!a": one record, two of two letters (not two of three characters), 100.0
C9_Witness ==
    /\ op = "analyze"
    /\ arg = <<LowerA, Bang, LowerA>>
    /\ ret = <<[letter |-> UpperA, count |-> 2,
                percentage |-> [m |-> 100 * (2 ^ 17), k |-> 17]]>>

\* C10: without case_sensitive every record carries an uppercase letter and
\* counts its occurrences in either case; with case_sensitive every letter of
\* the text has a record of its own case counting that case alone; a text
\* without letters gives an empty sequence in both modes.
C10_CaseFolding ==
    op = "analyze" =>
        /\ ~case_sensitive =>
              \A n \in 1..Len(ret) :
                  /\ isupper(ret[n].letter)
                  /\ ret[n].count = Occurrences(arg, ret[n].letter)
                                      + Occurrences(arg, ret[n].letter + (LowerA - UpperA))
        /\ case_sensitive =>
              /\ \A n \in 1..Len(ret) : ret[n].count = Occurrences(arg, ret[n].letter)
              /\ \A j \in 1..Len(arg) :
                    isalpha(arg[j]) => \E n \in 1..Len(ret) : ret[n].letter = arg[j]
        /\ ~HasLetter(arg) => Len(ret) = 0

\* "AaBb" analyzed with case_sensitive: four records, each with count 1
C10_Witness ==
    /\ op = "analyze"
    /\ case_sensitive
    /\ arg = AaBb
    /\ Len(ret) = 4
    /\ \A n \in 1..4 : ret[n].count = 1
    /\ {ret[n].letter : n \in 1..4} = {UpperA, LowerA, UpperB, LowerB}

----------------------------------------------------------------------------
(* Transposition cipher: the active shift *)

\* the magnitude of an int as a mathematical integer
Magnitude(n) == IF n < 0 THEN -n ELSE n

\* C11: after construction and after every set_key call, whatever int was
\* supplied (the most negative one included), the active shift is in 0..25
\* and equals |key| mod 26 of the last key supplied.
C11_ShiftInRange ==
    /\ key_ \in 0..25
    /\ key_ = Magnitude(t_key) % LettersPerCase

\* C14: under every active shift in 0..25, encrypt and decrypt take an
\* uppercase letter to an uppercase letter and a lowercase letter to a
\* lowercase letter, so the image of a letter is always an ASCII letter.
C14_CasePreserved ==
    (op \in {"t_encrypt", "t_decrypt"} /\ key_ \in 0..25) =>
        \A i \in 1..Len(arg) :
            /\ isupper(arg[i]) => isupper(ret[i])
            /\ islower(arg[i]) => islower(ret[i])
            /\ isalpha(arg[i]) => isalpha(ret[i])

\* decrypt moved 'A' back by 25 and an encrypt moved 'z' on: both wrapped
\* around inside their case
C14_Witness ==
    /\ key_ = 25
    /\ \/ /\ op = "t_decrypt"
          /\ \E i \in 1..Len(arg) : arg[i] = UpperA /\ ret[i] = UpperA + 1
       \/ /\ op = "t_encrypt"
          /\ \E i \in 1..Len(arg) : arg[i] = LowerZ /\ ret[i] = LowerZ - 1

----------------------------------------------------------------------------
(* Substitution cipher: colliding keys *)

\* C12: when the key in force sends two or more alphabet letters to the same
\* character c, the inverse map sends c to the letter at the highest alphabet
\* position whose forward entry is c (and decrypt returns that letter), while
\* the forward map holds exactly one entry for each of the 52 letters, the
\* character read for that position.
C12_LastAssignmentWins ==
    (Running /\ Len(sub_key) > 0 /\ ~NonColliding(sub_key)) =>
        LET read == cycled(sub_key)
            highest(c) == CHOOSE j \in 1..Len(alphabet) :
                              /\ read[j] = c
                              /\ \A k \in (j + 1)..Len(alphabet) : read[k] # c
        IN  /\ \A i \in 1..Len(alphabet) :
                  /\ read[i] \in DOMAIN decryption_map_
                  /\ decryption_map_[read[i]] = alphabet[highest(read[i])]
            /\ DOMAIN encryption_map_ = {alphabet[i] : i \in 1..Len(alphabet)}
            /\ Cardinality(DOMAIN encryption_map_) = Len(alphabet)
            /\ \A i \in 1..Len(alphabet) : encryption_map_[alphabet[i]] = read[i]
            /\ op = "s_decrypt" =>
                  \A n \in 1..Len(arg) :
                      (\E j \in 1..Len(alphabet) : read[j] = arg[n])
                          => ret[n] = alphabet[highest(arg[n])]

\* under the key "z!" the letter 'A' was encrypted to 'z', which decrypt took
\* to 'Y', the last of the 26 letters that encrypt to 'z'
C12_Witness ==
    /\ sub_key = CollidingKey
    /\ op = "s_decrypt"
    /\ chained
    /\ Len(origin) > 0
    /\ origin[1] = UpperA
    /\ arg[1] = LowerZ
    /\ ret[1] = UpperZ - 1

----------------------------------------------------------------------------
(* gui: the cipher buttons and the brute-force save *)

\* C13: pressing Encrypt sets the encrypted text to the selected cipher's
\* encrypt of the decrypted text (the substitution cipher when substitution is
\* selected, the transposition cipher when transposition is selected) and
\* leaves the decrypted text, the selected mode and both cipher instances as
\* they were; pressing Decrypt sets the decrypted text to the selected
\* cipher's decrypt of the encrypted text and leaves the encrypted text, the
\* mode and both ciphers as they were.
C13_PureDispatch ==
    [][/\ (op' = "Encrypt" /\ frames' = frames + 1) =>
              /\ selected_cipher_ = "substitution" =>
                    encrypted_text_' = substitution_encrypt(decrypted_text_, encryption_map_)
              /\ selected_cipher_ = "transposition" =>
                    encrypted_text_' = transposition_encrypt(decrypted_text_, key_)
              /\ UNCHANGED <<decrypted_text_, selected_cipher_, subst_vars, trans_vars>>
       /\ (op' = "Decrypt" /\ frames' = frames + 1) =>
              /\ selected_cipher_ = "substitution" =>
                    decrypted_text_' = substitution_decrypt(encrypted_text_, decryption_map_)
              /\ selected_cipher_ = "transposition" =>
                    decrypted_text_' = transposition_decrypt(encrypted_text_, key_)
              /\ UNCHANGED <<encrypted_text_, selected_cipher_, subst_vars, trans_vars>>
      ]_vars

\* with transposition selected, Encrypt took "A" to "Q" (the shift of the
\* gui's cipher is 42 mod 26 = 16)
C13_Witness ==
    /\ op = "Encrypt"
    /\ selected_cipher_ = "transposition"
    /\ decrypted_text_ = <<UpperA>>
    /\ encrypted_text_ = <<UpperA + 16>>

\* C15: no file the "Decrypt Brute" save writes comes from a cipher whose
\* normalized shift is 0, so the ciphertext is never written back unchanged.
C15_NoZeroShiftFile ==
    op = "Decrypt Brute" =>
        \A i \in DOMAIN files :
            /\ files[i].shift # 0
            /\ HasLetter(arg) => files[i].content # arg

----------------------------------------------------------------------------
(* gui: create, destroy and main_loop *)

InitFailures == {SdlInitFailed, WindowFailed, RendererFailed}
InitSteps == {"SDL_Init", "SDL_CreateWindow", "SDL_CreateRenderer", "ImGui_Setup"}

\* this step is thread t calling the gui function named
Calls(t, name) ==
    /\ pc[t] = "idle"
    /\ call'[t] = name
    /\ <<pc[t], call[t], result[t]>> # <<pc'[t], call'[t], result'[t]>>

\* C16: create on a GUI whose flag is set returns "GUI has already been
\* initialized" and changes nothing of the GUI (title, window, renderer,
\* flag); main_loop on a GUI whose flag is clear returns "GUI has not been
\* initialized" and does not enter the loop; and of the callers of create at
\* most one is past the check of the flag until the flag is cleared again.
C16_Guarded ==
    /\ [](Cardinality(proceeded) <= 1)
    /\ [][\A t \in Threads :
            /\ (Calls(t, "create") /\ is_initialized_) =>
                  /\ result'[t] = AlreadyInitialized
                  /\ pc'[t] = "idle"
                  /\ UNCHANGED <<title_, window_, renderer_, is_initialized_,
                                 sdl_initialized, window_state, renderer_state,
                                 imgui_context, main_loop_mutex_, should_exit_>>
            /\ (Calls(t, "main_loop") /\ ~is_initialized_) =>
                  /\ result'[t] = NotInitialized
                  /\ pc'[t] = "idle"
                  /\ UNCHANGED <<main_loop_mutex_, last_frame>>
       ]_vars

\* while one thread is inside initialize, the other's create was turned away
C16_Witness ==
    \E t, u \in Threads :
        /\ t # u
        /\ pc[t] \in InitSteps
        /\ proceeded = {t}
        /\ call[u] = "create"
        /\ result[u] = AlreadyInitialized

\* C17: shutdown's teardown never runs while main_loop is inside its frame
\* loop, in any interleaving of the two on different threads, and a shutdown
\* that finds the flag clear (one after a completed shutdown) does nothing.
C17_TeardownExcluded ==
    /\ [](\A t, u \in Threads : ~(pc[t] = "shutdown_teardown" /\ pc[u] = "frame_loop"))
    /\ [][\A t \in Threads :
            (Calls(t, "destroy") /\ ~is_initialized_) =>
                /\ result'[t] = Returned
                /\ pc'[t] = "idle"
                /\ UNCHANGED <<title_, window_, renderer_, is_initialized_,
                               sdl_initialized, window_state, renderer_state,
                               imgui_context, main_loop_mutex_, should_exit_, torn_down>>
       ]_vars

\* a shutdown waits for the mutex while the other thread's main_loop has run a frame
C17_Witness ==
    \E t, u \in Threads :
        /\ pc[t] = "frame_loop"
        /\ main_loop_mutex_ = t
        /\ last_frame = "running"
        /\ pc[u] = "shutdown_lock"
        /\ ~is_initialized_

\* C18: main_loop never runs a frame after shutdown has completed its
\* teardown: it is never inside its frame loop on a GUI that has been torn
\* down (the main_loop that loses the race returns the error instead).
C18_NoFrameAfterTeardown ==
    /\ last_frame # "after_teardown"
    /\ \A t \in Threads : pc[t] = "frame_loop" => ~torn_down

\* C19: when create fails at SDL_Init, at the window or at the renderer, the
\* GUI is not left marked initialized.
C19_FailedCreateNotInitialized ==
    [][\A t \in Threads :
          (pc[t] \in InitSteps /\ pc'[t] = "idle" /\ result'[t] \in InitFailures)
              => ~is_initialized_']_vars

\* C20: when shutdown completes on a GUI that was successfully initialized, the
\* renderer and the window have been destroyed and the flag is clear.
C20_AllReleased ==
    [][\A t \in Threads :
          (/\ pc[t] = "shutdown_teardown"
           /\ pc'[t] = "idle"
           /\ imgui_context
           /\ renderer_state = "open"
           /\ window_state = "open")
              => /\ renderer_state' = "destroyed"
                 /\ window_state' = "destroyed"
                 /\ ~is_initialized_']_vars

----------------------------------------------------------------------------
(* gui: the "Transposition Key" input *)

\* C21: with transposition selected, Encrypt and Decrypt use the shift
\* |key| mod 26 of the value the "Transposition Key" input holds at that
\* moment: after the user has changed the input, the next Encrypt or Decrypt
\* works with the new key, not with the initial key 42.
C21_KeyInputUsed ==
    (op \in {"Encrypt", "Decrypt"} /\ selected_cipher_ = "transposition") =>
        LET shift == Magnitude(transposition_key) % LettersPerCase
        IN  /\ key_ = shift
            /\ op = "Encrypt" => ret = transposition_encrypt(arg, shift)
            /\ op = "Decrypt" => ret = transposition_decrypt(arg, shift)

====
